---- MODULE Spec2Model ----
(***************************************************************************)
(* Model of the pushbits crate: Bits32, a 32-bit container whose fields    *)
(* are pushed at the LSB and popped from the MSB with shift-left.          *)
(*                                                                         *)
(* A u32 is modelled as the set of its set bit positions (0 = LSB,         *)
(* 31 = MSB): TLC's integers are 32-bit signed, so the arithmetic of the   *)
(* claims is done on 16-bit limbs <<hi, lo>> instead.                      *)
(***************************************************************************)
EXTENDS Integers, Sequences, FiniteSets

VARIABLES
    overflow_checks,  \* build profile: TRUE = overflow checks on (debug)
    bits,             \* Bits32.bits of the container in use
    pc,               \* "ready", or "panicked" once a call failed fatally
    last,             \* the last call: its arguments, pre-state and outcome
    init,             \* the pattern the container was constructed with
    pushed,           \* the completed pushes since new: <<num_bits, value>>
    popped,           \* the completed pops since new: <<num_bits, res>>
    nfields           \* round trip: how many of the pushes are fields

vars == <<overflow_checks, bits, pc, last, init, pushed, popped, nfields>>

-----------------------------------------------------------------------------
(* Bounds of the model.                                                    *)

MaxNumBits == 33     \* widths 0..MaxNumBits are tried in single calls
MaxOps == 1          \* calls per container in Spec
MaxPush == 2         \* pushes per container in SpecPush
MaxPop == 3          \* pops per container in SpecPop
MaxFields == 3       \* fields per row in SpecRoundTrip

-----------------------------------------------------------------------------
(* u32 values.                                                             *)

BIT_WIDTH == 32

BitIdx == 0 .. (BIT_WIDTH - 1)

\* bit i of the 16-bit number n
Bit16(n, i) == (n \div (2 ^ i)) % 2 = 1

\* the u32 whose high and low 16-bit halves are hi and lo
U32(hi, lo) ==
    {i \in 0 .. 15 : Bit16(lo, i)} \cup {i + 16 : i \in {j \in 0 .. 15 : Bit16(hi, j)}}

Zero == {}
One == {0}

\* u32 & u32, u32 | u32
BitAnd(a, b) == a \cap b
BitOr(a, b) == a \cup b

\* a shift amount overflows when it is not below the width of the type
ShiftOverflows(rhs) == rhs >= BIT_WIDTH

\* x << rhs and x >> rhs without overflow checks: the amount is taken
\* modulo the width, bits shifted out are dropped, zeros come in
WrappingShl(x, rhs) ==
    {i + (rhs % BIT_WIDTH) : i \in x} \cap BitIdx

\* the shift right of a signed integer: the top bit is copied in
WrappingShr_Arithmetic(x, rhs) ==
    ({i - (rhs % BIT_WIDTH) : i \in x} \cap BitIdx)
        \cup (IF (BIT_WIDTH - 1) \in x
              THEN (BIT_WIDTH - (rhs % BIT_WIDTH)) .. (BIT_WIDTH - 1)
              ELSE {})

WrappingShr(x, rhs) ==
    {i - (rhs % BIT_WIDTH) : i \in x} \cap BitIdx

\* x - 1 by borrow propagation; 0 - 1 wraps to all ones
LowestSet(x) == CHOOSE i \in x : \A j \in x : i <= j

WrappingDec(x) ==
    IF x = {} THEN BitIdx
    ELSE (x \ {LowestSet(x)}) \cup (0 .. (LowestSet(x) - 1))

\* From<bool> for u32
FromBool(b) == IF b THEN One ELSE Zero

-----------------------------------------------------------------------------
(* Bits32.  Every method is an operator from the container's pattern (and  *)
(* its arguments) to an outcome: the pattern it leaves, the value it       *)
(* returns and whether it panicked ("assert": the width assertion,         *)
(* "overflow": an arithmetic overflow check of the build).                 *)

Outcome(p, b, r) == [panic |-> p, bits |-> b, res |-> r]

\* the assertion off by one: a width of BIT_WIDTH passes
WidthAssert_OffByOne(num_bits) == num_bits <= BIT_WIDTH

\* assert!(num_bits < Self::BIT_WIDTH)
WidthAssert(num_bits) == num_bits < BIT_WIDTH

\* Bits32::new
new(b) == Outcome("none", b, Zero)

\* Bits32::get
get(self) == Outcome("none", self, self)

\* the mask without its decrement: the single bit 1 << num_bits
mask_NoDecrement(num_bits) == WrappingShl(One, num_bits)

\* let mask = (1 << num_bits) - 1
mask(num_bits) == WrappingDec(WrappingShl(One, num_bits))

\* push merging the value before it shifts
push_MergeThenShift(self, num_bits, value) ==
    IF ~WidthAssert(num_bits)
    THEN Outcome("assert", self, Zero)
    ELSE Outcome("none",
                 WrappingShl(BitOr(self, BitAnd(value, mask(num_bits))), num_bits),
                 Zero)

\* Bits32::push, value already converted by Into<u32>
push(self, num_bits, value) ==
    IF ~WidthAssert(num_bits)
    THEN Outcome("assert", self, Zero)
    ELSE IF overflow_checks /\ ShiftOverflows(num_bits)
    THEN Outcome("overflow", self, Zero)
    ELSE IF overflow_checks /\ WrappingShl(One, num_bits) = Zero
    THEN Outcome("overflow", WrappingShl(self, num_bits), Zero)
    ELSE Outcome("none",
                 BitOr(WrappingShl(self, num_bits), BitAnd(value, mask(num_bits))),
                 Zero)

\* Bits32::push_bool
push_bool(self, value) == push(self, 1, FromBool(value))

\* pop that reads the top bits and leaves them in place
pop_NoConsume(self, num_bits) ==
    IF ~WidthAssert(num_bits)
    THEN Outcome("assert", self, Zero)
    ELSE Outcome("none", self, WrappingShr(self, BIT_WIDTH - num_bits))

\* pop that shifts right by the field width instead of its complement
pop_ShrByWidth(self, num_bits) ==
    IF ~WidthAssert(num_bits)
    THEN Outcome("assert", self, Zero)
    ELSE Outcome("none", WrappingShl(self, num_bits), WrappingShr(self, num_bits))

\* Bits32::pop
pop(self, num_bits) ==
    IF ~WidthAssert(num_bits)
    THEN Outcome("assert", self, Zero)
    ELSE IF overflow_checks
            /\ (num_bits > BIT_WIDTH \/ ShiftOverflows(BIT_WIDTH - num_bits))
    THEN Outcome("overflow", self, Zero)
    ELSE IF overflow_checks /\ ShiftOverflows(num_bits)
    THEN Outcome("overflow", self, Zero)
    ELSE Outcome("none",
                 WrappingShl(self, num_bits),
                 WrappingShr(self, BIT_WIDTH - num_bits))

\* pop_bool with the comparison inverted: self.pop(1) == 0
pop_bool_Inverted(self) ==
    [pop(self, 1) EXCEPT !.res = (pop(self, 1).res = Zero)]

\* Bits32::pop_bool: self.pop(1) != 0
pop_bool(self) ==
    [pop(self, 1) EXCEPT !.res = (pop(self, 1).res # Zero)]

-----------------------------------------------------------------------------
(* The inputs the callers draw from.                                       *)

\* initial bit patterns: 0, 0b101, 0x12345678, 0x80000000, 0xDEADBEEF,
\* 0xFFFFFFFF
Patterns ==
    { U32(0, 0), U32(0, 5), U32(4660, 22136), U32(32768, 0),
      U32(57005, 48879), U32(65535, 65535) }

\* a smaller choice for the runs of several calls: 0, 0b101, 0xDEADBEEF,
\* 0xFFFFFFFF
SeqPatterns ==
    { U32(0, 0), U32(0, 5), U32(57005, 48879), U32(65535, 65535) }

\* pushed values: 0, 0b10110, 0xDEADBEEF, 0xFFFFFFFF
Values ==
    { U32(0, 0), U32(0, 22), U32(57005, 48879), U32(65535, 65535) }

\* pushed values of the runs of several calls: 0, 0b10001, 0b10110,
\* 0b11100110, 0xFFFFFFFF
SeqValues ==
    { U32(0, 0), U32(0, 17), U32(0, 22), U32(0, 230), U32(65535, 65535) }

\* widths of the runs of several pushes and of several pops
PushWidths == {0, 1, 5, 8, 20, 31, 32}

SeqWidths == {0, 1, 3, 5, 8, 12, 16, 20, 29, 31, 32}

\* field widths and field values (before masking) of the round trips
FieldWidths == {0, 1, 3, 4, 8, 12, 16, 20, 28, 31}

FieldValues == { U32(57005, 48879), U32(65535, 65535) }

\* the rows start from 0 or from 0xDEADBEEF
RowPatterns == { U32(0, 0), U32(57005, 48879) }

-----------------------------------------------------------------------------
(* The calls as actions.  A panic is fatal: the container is used no more. *)

NoCall == [op |-> "none", num_bits |-> 0, value |-> Zero, flag |-> FALSE,
           pre |-> Zero, res |-> Zero, panic |-> "none"]

Call(o, n, v, f, out) ==
    [op |-> o, num_bits |-> n, value |-> v, flag |-> f,
     pre |-> bits, res |-> out.res, panic |-> out.panic]

Ready(out) == IF out.panic = "none" THEN "ready" ELSE "panicked"

New(b) ==
    /\ bits' = new(b).bits
    /\ init' = b
    /\ pc' = "ready"
    /\ last' = [Call("new", 0, b, FALSE, new(b)) EXCEPT !.pre = Zero]
    /\ pushed' = <<>>
    /\ popped' = <<>>
    /\ nfields' = 0
    /\ UNCHANGED overflow_checks

Get ==
    /\ pc = "ready"
    /\ last' = Call("get", 0, Zero, FALSE, get(bits))
    /\ UNCHANGED <<overflow_checks, bits, pc, init, pushed, popped, nfields>>

Push(num_bits, value) ==
    LET out == push(bits, num_bits, value) IN
    /\ pc = "ready"
    /\ bits' = out.bits
    /\ pc' = Ready(out)
    /\ last' = Call("push", num_bits, value, FALSE, out)
    /\ pushed' = IF out.panic = "none"
                 THEN Append(pushed, <<num_bits, value>>) ELSE pushed
    /\ UNCHANGED <<overflow_checks, init, popped>>

PushBool(value) ==
    LET out == push_bool(bits, value) IN
    /\ pc = "ready"
    /\ bits' = out.bits
    /\ pc' = Ready(out)
    /\ last' = Call("push_bool", 1, Zero, value, out)
    /\ pushed' = IF out.panic = "none"
                 THEN Append(pushed, <<1, FromBool(value)>>) ELSE pushed
    /\ UNCHANGED <<overflow_checks, init, popped>>

Pop(num_bits) ==
    LET out == pop(bits, num_bits) IN
    /\ pc = "ready"
    /\ bits' = out.bits
    /\ pc' = Ready(out)
    /\ last' = Call("pop", num_bits, Zero, FALSE, out)
    /\ popped' = IF out.panic = "none"
                 THEN Append(popped, <<num_bits, out.res>>) ELSE popped
    /\ UNCHANGED <<overflow_checks, init, pushed>>

PopBool ==
    LET out == pop_bool(bits) IN
    /\ pc = "ready"
    /\ bits' = out.bits
    /\ pc' = Ready(out)
    /\ last' = Call("pop_bool", 1, Zero, FALSE, out)
    /\ popped' = IF out.panic = "none"
                 THEN Append(popped, <<1, FromBool(out.res)>>) ELSE popped
    /\ UNCHANGED <<overflow_checks, init, pushed>>

-----------------------------------------------------------------------------
(* Spec: calls of every width on a freshly made container, at most MaxOps  *)
(* pushes and pops per container.                                          *)

NCalls == Len(pushed) + Len(popped)

InitWith(S) ==
    /\ overflow_checks \in BOOLEAN
    /\ bits \in S
    /\ init = bits
    /\ pc = "ready"
    /\ last = [NoCall EXCEPT !.op = "new", !.value = bits]
    /\ pushed = <<>>
    /\ popped = <<>>
    /\ nfields = 0

Init == InitWith(Patterns)

DoNew ==
    /\ NCalls < MaxOps
    /\ \E b \in Patterns : New(b)

DoGet ==
    /\ NCalls < MaxOps
    /\ Get

DoPush ==
    /\ NCalls < MaxOps
    /\ \E n \in 0 .. MaxNumBits, x \in Values : Push(n, x) /\ UNCHANGED nfields

DoPushBool ==
    /\ NCalls < MaxOps
    /\ \E v \in BOOLEAN : PushBool(v) /\ UNCHANGED nfields

DoPop ==
    /\ NCalls < MaxOps
    /\ \E n \in 0 .. MaxNumBits : Pop(n) /\ UNCHANGED nfields

DoPopBool ==
    /\ NCalls < MaxOps
    /\ PopBool /\ UNCHANGED nfields

Next == DoNew \/ DoGet \/ DoPush \/ DoPushBool \/ DoPop \/ DoPopBool

Spec == Init /\ [][Next]_vars

-----------------------------------------------------------------------------
(* SpecPush: an encode pass, up to MaxPush pushes on a new container.      *)

SeqPush ==
    /\ Len(pushed) < MaxPush
    /\ \E n \in PushWidths, x \in SeqValues : Push(n, x) /\ UNCHANGED nfields

SeqPushBool ==
    /\ Len(pushed) < MaxPush
    /\ \E v \in BOOLEAN : PushBool(v) /\ UNCHANGED nfields

InitSeq == InitWith(SeqPatterns)

NextPush == SeqPush \/ SeqPushBool

SpecPush == InitSeq /\ [][NextPush]_vars

(* SpecPop: a decode pass, up to MaxPop pops on a new container.           *)

SeqPop ==
    /\ Len(popped) < MaxPop
    /\ \E n \in SeqWidths : Pop(n) /\ UNCHANGED nfields

SeqPopBool ==
    /\ Len(popped) < MaxPop
    /\ PopBool /\ UNCHANGED nfields

NextPop == SeqPop \/ SeqPopBool

SpecPop == InitSeq /\ [][NextPop]_vars

(* SpecRoundTrip: up to MaxFields fields of total width at most 32 are     *)
(* pushed, each value within its width; the row may then be shifted to the *)
(* top by one push of zeros; the fields are popped with the widths they    *)
(* were pushed with, in the same order.                                    *)

RECURSIVE TotalWidth(_)
TotalWidth(calls) ==
    IF calls = <<>> THEN 0 ELSE calls[1][1] + TotalWidth(Tail(calls))

Encoding == popped = <<>> /\ Len(pushed) = nfields

RTField ==
    /\ Encoding
    /\ nfields < MaxFields
    /\ \E w \in FieldWidths, v \in FieldValues :
           /\ TotalWidth(pushed) + w <= BIT_WIDTH
           /\ Push(w, v \cap (0 .. (w - 1)))
    /\ nfields' = nfields + 1

RTFieldBool ==
    /\ Encoding
    /\ nfields < MaxFields
    /\ TotalWidth(pushed) + 1 <= BIT_WIDTH
    /\ \E v \in BOOLEAN : PushBool(v)
    /\ nfields' = nfields + 1

RTPad ==
    /\ Encoding
    /\ TotalWidth(pushed) > 0
    /\ TotalWidth(pushed) < BIT_WIDTH
    /\ Push(BIT_WIDTH - TotalWidth(pushed), Zero)
    /\ UNCHANGED nfields

RTPop ==
    /\ Len(popped) < nfields
    /\ Pop(pushed[Len(popped) + 1][1])
    /\ UNCHANGED nfields

RTPopBool ==
    /\ Len(popped) < nfields
    /\ pushed[Len(popped) + 1][1] = 1
    /\ PopBool
    /\ UNCHANGED nfields

InitRow == InitWith(RowPatterns)

NextRoundTrip == RTField \/ RTFieldBool \/ RTPad \/ RTPop \/ RTPopBool

SpecRoundTrip == InitRow /\ [][NextRoundTrip]_vars

-----------------------------------------------------------------------------
(* Arithmetic of the claims.  A 32-bit number is a pair <<hi, lo>> of      *)
(* 16-bit limbs, hi * 2^16 + lo, so that no intermediate value leaves      *)
(* TLC's integers.                                                         *)

RECURSIVE SumBits(_, _, _)
\* the number whose bit i is set iff base + i is in S, for i < width
SumBits(S, base, width) ==
    IF width = 0 THEN 0
    ELSE SumBits(S, base, width - 1)
         + (IF (base + width - 1) \in S THEN 2 ^ (width - 1) ELSE 0)

\* the limbs of a u32
Limbs(S) == <<SumBits(S, 16, 16), SumBits(S, 0, 16)>>

\* the value of a u32 below 2^31
Num(S) == SumBits(S, 0, 31)

\* (b * 2^n) mod 2^32, 0 <= n <= 31
MulPow2(b, n) ==
    IF n < 16
    THEN <<(b[1] * (2 ^ n) + ((b[2] * (2 ^ n)) \div 65536)) % 65536,
           (b[2] * (2 ^ n)) % 65536>>
    ELSE <<(b[2] * (2 ^ (n - 16))) % 65536, 0>>

\* floor(b / 2^k), 0 <= k <= 32
DivPow2(b, k) ==
    IF k < 16
    THEN <<b[1] \div (2 ^ k),
           (b[2] \div (2 ^ k)) + (b[1] % (2 ^ k)) * (2 ^ (16 - k))>>
    ELSE <<0, b[1] \div (2 ^ (k - 16))>>

\* b mod 2^k, 0 <= k <= 32
ModPow2(b, k) ==
    IF k <= 16
    THEN <<0, b[2] % (2 ^ k)>>
    ELSE <<b[1] % (2 ^ (k - 16)), b[2]>>

RECURSIVE Or16(_, _, _)
\* bitwise OR of the low k bits of two numbers
Or16(a, b, k) ==
    IF k = 0 THEN 0
    ELSE 2 * Or16(a \div 2, b \div 2, k - 1)
         + (IF a % 2 = 1 \/ b % 2 = 1 THEN 1 ELSE 0)

\* a OR b on limbs
OrLimbs(a, b) == <<Or16(a[1], b[1], 16), Or16(a[2], b[2], 16)>>

Completed(o) == last.op = o /\ last.panic = "none"

-----------------------------------------------------------------------------
(* Claims about single calls (Spec).                                       *)

\* C2: push(num_bits, value) and pop(num_bits) fail on the width assertion,
\* leaving the pattern as it was and returning nothing, whenever
\* num_bits >= 32.
C2_WidthBoundary ==
    (last.op \in {"push", "pop"} /\ last.num_bits >= BIT_WIDTH)
        => /\ last.panic = "assert"
           /\ pc = "panicked"
           /\ bits = last.pre
           /\ last.res = Zero

C2_Witness ==
    /\ last.op = "pop"
    /\ last.num_bits = BIT_WIDTH
    /\ last.panic = "assert"
    /\ ~overflow_checks

\* C3: with 0 <= num_bits < 32 push and pop complete without failing, and
\* new and get never fail.
C3_Total ==
    /\ (last.op \in {"push", "pop"} /\ last.num_bits < BIT_WIDTH)
           => last.panic = "none"
    /\ last.op \in {"new", "get"} => last.panic = "none"

\* C4: pop(0) returns 0 and leaves the pattern as it was.
C4_PopZero ==
    (last.op = "pop" /\ last.num_bits = 0)
        => /\ last.panic = "none"
           /\ last.res = Zero
           /\ bits = last.pre

\* C5: push(n, x) with 0 <= n < 32 leaves the pattern
\* ((b * 2^n) mod 2^32) OR (x mod 2^n); push(0, x) leaves it unchanged.
C5_Masking ==
    (last.op = "push" /\ last.num_bits < BIT_WIDTH)
        => /\ last.panic = "none"
           /\ Limbs(bits) = OrLimbs(MulPow2(Limbs(last.pre), last.num_bits),
                                    ModPow2(Limbs(last.value), last.num_bits))
           /\ last.num_bits = 0 => bits = last.pre

C5_Witness ==
    /\ Completed("push")
    /\ last.num_bits = 5
    /\ last.pre = U32(57005, 48879)
    /\ last.value = U32(65535, 65535)
    /\ Limbs(bits) = <<54711, 56831>>

\* C6: pop(n) with 0 <= n < 32 returns floor(b / 2^(32 - n)), which is
\* below 2^n, and leaves the pattern (b * 2^n) mod 2^32.
C6_Pop ==
    (last.op = "pop" /\ last.num_bits < BIT_WIDTH)
        => /\ last.panic = "none"
           /\ Limbs(last.res) = DivPow2(Limbs(last.pre), BIT_WIDTH - last.num_bits)
           /\ Limbs(last.res) = ModPow2(Limbs(last.res), last.num_bits)
           /\ Limbs(bits) = MulPow2(Limbs(last.pre), last.num_bits)

\* C10: push_bool(v) leaves the pattern push(1, 1) leaves when v is true
\* and the one push(1, 0) leaves when v is false, that is (b * 2) mod 2^32
\* with v as its lowest bit; pop_bool() returns true exactly when pop(1)
\* returns a non-zero value, that is when b >= 2^31, and leaves the
\* pattern pop(1) leaves, (b * 2) mod 2^32.
C10_BoolVariants ==
    /\ last.op = "push_bool" =>
           /\ last.panic = "none"
           /\ bits = push(last.pre, 1, IF last.flag THEN One ELSE Zero).bits
           /\ Limbs(bits) = OrLimbs(MulPow2(Limbs(last.pre), 1),
                                    <<0, IF last.flag THEN 1 ELSE 0>>)
    /\ last.op = "pop_bool" =>
           /\ last.panic = "none"
           /\ last.res = (pop(last.pre, 1).res # Zero)
           /\ last.res = (Limbs(last.pre)[1] >= 32768)
           /\ bits = pop(last.pre, 1).bits
           /\ Limbs(bits) = MulPow2(Limbs(last.pre), 1)

C10_Witness ==
    /\ Completed("pop_bool")
    /\ last.pre = U32(57005, 48879)
    /\ last.res = TRUE
    /\ Limbs(bits) = <<48475, 32222>>

-----------------------------------------------------------------------------
(* Claims about runs of calls.                                             *)

\* the low w bits of x as a bit string, most significant bit first
BitStr(x, w) == [i \in 1 .. w |-> (w - i) \in x]

RECURSIVE FieldsStr(_)
\* the pushed fields, each masked to its width, one after the other
FieldsStr(calls) ==
    IF calls = <<>> THEN <<>>
    ELSE BitStr(calls[1][2], calls[1][1]) \o FieldsStr(Tail(calls))

Low32(str) == SubSeq(str, Len(str) - BIT_WIDTH + 1, Len(str))

\* C7 (SpecPush): after push(w_1, x_1) .. push(w_k, x_k) on a container made
\* with v the pattern is the low 32 bits of the bit string v x_1 .. x_k,
\* each x_i masked to w_i bits; no push of a width below 32 fails, whatever
\* is shifted out; from 0, push(5, 0b10110), push_bool(true) gives 0b101101
\* and push(8, 0b11100110), push(5, 0b10001) gives 0b1110011010001.
C7_PushOrder ==
    /\ (last.op \in {"push", "push_bool"} /\ last.num_bits < BIT_WIDTH)
           => last.panic = "none"
    /\ popped = <<>> =>
           BitStr(bits, BIT_WIDTH) = Low32(BitStr(init, BIT_WIDTH) \o FieldsStr(pushed))
    /\ (init = Zero /\ pushed = << <<5, U32(0, 22)>>, <<1, One>> >>)
           => Limbs(bits) = <<0, 45>>
    /\ (init = Zero /\ pushed = << <<8, U32(0, 230)>>, <<5, U32(0, 17)>> >>)
           => Limbs(bits) = <<0, 7377>>

\* 0xDEADBEEF, push(20, 0xFFFFFFFF), push(5, 0b10110): the pattern is
\* 0xDFFFFFF6, the first twenty-five bits are shifted out
C7_Witness ==
    /\ init = U32(57005, 48879)
    /\ pushed = << <<20, U32(65535, 65535)>>, <<5, U32(0, 22)>> >>
    /\ Completed("push")
    /\ Limbs(bits) = <<57343, 65526>>

RECURSIVE Offset(_, _)
\* the total width of the first i - 1 calls
Offset(calls, i) == IF i <= 1 THEN 0 ELSE calls[i - 1][1] + Offset(calls, i - 1)

\* the w bits of v below its top off bits, as a number on limbs
Slice(v, off, w) == ModPow2(DivPow2(Limbs(v), BIT_WIDTH - off - w), w)

ValidWidths(calls) ==
    \A i \in 1 .. Len(calls) : calls[i][1] >= 1 /\ calls[i][1] < BIT_WIDTH

\* C8 (SpecPop): pops of widths 1..31 on a container made with v return the
\* consecutive slices of v from the top down, as long as they total at
\* most 32 bits, and once they total 32 bits the pattern is 0.
C8_PopDrains ==
    (pushed = <<>> /\ ValidWidths(popped) /\ TotalWidth(popped) <= BIT_WIDTH)
        => /\ \A i \in 1 .. Len(popped) :
                  Limbs(popped[i][2]) = Slice(init, Offset(popped, i), popped[i][1])
           /\ (last.op \in {"pop", "pop_bool"} /\ last.num_bits >= 1
                   /\ last.num_bits < BIT_WIDTH) => last.panic = "none"
           /\ TotalWidth(popped) = BIT_WIDTH => bits = Zero

\* 0xDEADBEEF: pop(12), pop(12), pop(8) give 0xDEA, 0xDBE, 0xEF and leave 0
C8_Witness ==
    /\ init = U32(57005, 48879)
    /\ Len(popped) = 3
    /\ popped[1][1] = 12 /\ Num(popped[1][2]) = 3562
    /\ popped[2][1] = 12 /\ Num(popped[2][2]) = 3518
    /\ popped[3][1] = 8 /\ Num(popped[3][2]) = 239
    /\ bits = Zero

\* the fields of the row, without the padding push
Fields == SubSeq(pushed, 1, nfields)

Padded == Len(pushed) = nfields + 1

\* C9 (SpecRoundTrip): fields of widths 1..31 and total width s <= 32 are
\* pushed on any pattern, then push(32 - s, 0) when s < 32: the pops with
\* the same widths in the same order all complete and return the values
\* pushed.
C9_LeftJustified ==
    (/\ nfields > 0
     /\ ValidWidths(Fields)
     /\ Padded \/ TotalWidth(Fields) = BIT_WIDTH)
        => /\ pc = "ready"
           /\ \A i \in 1 .. Len(popped) : popped[i] = pushed[i]

\* on 0xDEADBEEF the fields 1, 0, 1 are pushed and shifted to the top by
\* push(29, 0): three pop_bool() have returned true, false, true
C9_Witness ==
    /\ init = U32(57005, 48879)
    /\ nfields = 3
    /\ pushed = << <<1, One>>, <<1, Zero>>, <<1, One>>, <<29, Zero>> >>
    /\ popped = << <<1, One>>, <<1, Zero>>, <<1, One>> >>
    /\ Completed("pop_bool") /\ last.res = TRUE
    /\ bits = Zero

====
